---- MODULE Spec2Model ----
(***************************************************************************)
(* CodAlarm (src/CodAlarm/main.cpp): the foreground polling loop of main() *)
(* and the Timer0 / Timer1 interrupt handlers that preempt it.             *)
(*                                                                         *)
(* Execution model.  An interrupt handler runs to completion (handlers do  *)
(* not nest), so TIMER0_OVF and TIMER1_COMPA are one step each.  The       *)
(* foreground is preemptible between statements, so every statement of     *)
(* main()'s loop and of the short-press listeners is one step; pc holds    *)
(* the source line of the next foreground statement ("L153" is line 153).  *)
(* The target is an 8-bit AVR: an access to one of the two int countdowns  *)
(* from the foreground is two byte accesses, and a handler may run between *)
(* them ("L270h" is line 270 with the high byte still to store, "L400h"    *)
(* line 400 with the high byte still to load).                             *)
(*                                                                         *)
(* Timing.  Interrupts are enabled throughout, and Next lets a handler run *)
(* wherever the foreground stands, any number of times.  Timer0 runs at    *)
(* clk/8 and overflows every 2048 cycles (main.cpp:117-119); NextPeriod is *)
(* Next with its overflows kept that far apart: at most one among the      *)
(* statements of one listener or of the switch-off block, any number in    *)
(* ca.io.checkPress() and gui.draw(), which poll the buttons and drive the *)
(* display.                                                                *)
(*                                                                         *)
(* core/Clock.h, core/CodAlarm.h and the IO wrapper are not part of the    *)
(* sources at hand.  What the model needs of them (the enumerator values   *)
(* of the device state, the time value arithmetic, the listener dispatch   *)
(* of checkPress / countCheckLong, the N_* durations) follows the design   *)
(* document and is marked so where it is defined.  The Timer2 handler only *)
(* calls ca.io.buzz(); timsk2 models the interrupt enable bit that gates   *)
(* it.  Hours are kept on one 0..HoursPerDay-1 dial in both display modes. *)
(***************************************************************************)
EXTENDS Integers, Sequences, FiniteSets, TLC

\* ------------------------------------------------------------ constants

\* main.cpp:9, main.cpp:10
BACKLIGHT_OFF == -1
BUZZER_OFF == -1

\* Durations in fast ticks (core/CodAlarm.h), scaled down.
N_BACKLIGHT == 2
N_BUZZER_SHORT == 1
N_BUZZER_LONG == 2

\* The time dial (core/Clock.h), scaled down from 24 h x 60 min x 60 s.  On
\* 3 x 2 a day has 6 minutes: one hour up and one hour down differ, one
\* minute up and one minute down differ, and 5 minutes more is neither 1
\* minute more nor a number of whole hours.
HoursPerDay == 3
MinPerHour == 2
SecPerMin == 1

\* The values of a byte, scaled down from 256; an int is two bytes, held in
\* two's complement.  The scaled durations fit the low byte.
ByteValues == 4

\* enum DeviceState, in declaration order: the first enumerator is 0.
IDLE == 0
SET_ALARM1 == 1
SET_ALARM2 == 2
SET_CLOCK1 == 3
SET_CLOCK2 == 4
RING == 5

DeviceState == {IDLE, SET_ALARM1, SET_ALARM2, SET_CLOCK1, SET_CLOCK2, RING}
Mode == {"H12", "H24"}

\* Logical buttons listeners are registered for (main.cpp:137-146).
Buttons == {"SET_ALARM", "UP", "DOWN", "MODE", "SNOOZE", "STOP_ALARM"}

\* ------------------------------------------------------------ TimeValue

TimeValue == [hour : 0 .. HoursPerDay - 1, min : 0 .. MinPerHour - 1,
              sec : 0 .. SecPerMin - 1]

Midnight == [hour |-> 0, min |-> 0, sec |-> 0]

\* getValue(): the time as one number, compared by the 1-second handler.
getValue(t) == (t.hour * MinPerHour + t.min) * SecPerMin + t.sec

\* setHour(d): the hour moves by d and wraps; minute and second stay.
setHour(t, d) == [t EXCEPT !.hour = (t.hour + d) % HoursPerDay]

\* setMin(d): the minute moves by d with carry into the hour.
setMin(t, d) ==
    LET total == t.hour * MinPerHour + t.min + d
        day == HoursPerDay * MinPerHour
        w == total % day
    IN [t EXCEPT !.hour = w \div MinPerHour, !.min = w % MinPerHour]

\* tick(): one second, with carry into minute and hour.
tick(t) ==
    IF t.sec + 1 < SecPerMin
    THEN [t EXCEPT !.sec = t.sec + 1]
    ELSE setMin([t EXCEPT !.sec = 0], 1)

\* sync(other): take over the other value.
sync(t, other) == other

\* ------------------------------------------------------------ int

WordValues == ByteValues * ByteValues

\* An int as its bit pattern and back.
Unsigned(c) == c % WordValues
Signed(u) == IF u >= WordValues \div 2 THEN u - WordValues ELSE u

lowByte(c) == Unsigned(c) % ByteValues
highByte(c) == Unsigned(c) \div ByteValues

\* The int of high byte h and low byte l.
Word(h, l) == Signed(h * ByteValues + l)

\* The int c after the low (the high) byte of v is stored into it.
storeLow(c, v) == Word(highByte(c), lowByte(v))
storeHigh(c, v) == Word(highByte(v), lowByte(c))

\* The two orders a build may access the bytes of an int in.
ByteOrder == {"low", "high"}

\* The first byte of v stored into c, the first byte loaded from c, and the
\* line label of the byte that is then still to store or load.
storeFirst(c, v, first) ==
    IF first = "low" THEN storeLow(c, v) ELSE storeHigh(c, v)
loadFirst(c, first) == IF first = "low" THEN lowByte(c) ELSE highByte(c)
Pending(l, first) == IF first = "low" THEN l \o "h" ELSE l \o "l"

\* The int a load completes to: the byte loaded first, byte, with the other
\* byte of c as it is now; l is the label of the second load.
loadSecond(c, byte, l) ==
    IF l = "L400h" THEN Word(highByte(c), byte) ELSE Word(byte, lowByte(c))

\* ------------------------------------------------------------ state

VARIABLES
    state,              \* ca.state
    mode,               \* ca.mode
    snoozed,            \* ca.snoozed
    clock,              \* ca.clock
    alarm,              \* ca.alarm
    snooze,             \* ca.snooze
    backlight_counter,  \* main.cpp:98
    buzzer_counter,     \* main.cpp:101
    buzzer_state,       \* main.cpp:104
    light,              \* illumination output, ca.io.setLight
    timsk2,             \* Timer2 compare interrupt enable bit
    sw,                 \* level of the alarm on/off switch, ca.io.getSwitch
    pc,                 \* next foreground statement
    queue,              \* listeners of the current press still to run
    loaded,             \* byte of buzzer_counter the test of main.cpp:400
                        \* has loaded, the other byte still to load
    overflowed,         \* NextPeriod: Timer0 has overflowed among the
                        \* statements run since the last lengthy call
    op,                 \* history: the step taken last
    ev                  \* history: the foreground event being handled

dev == <<state, mode, snoozed, clock, alarm, snooze, backlight_counter,
         buzzer_counter, buzzer_state, light, timsk2>>
vars == <<state, mode, snoozed, clock, alarm, snooze, backlight_counter,
          buzzer_counter, buzzer_state, light, timsk2, sw, pc, queue,
          loaded, overflowed, op, ev>>

hist == <<op, ev>>

\* What ev remembers of the device as a foreground event began.
First == [state |-> state]

\* No event is being handled: nothing of the device is remembered.
NoEvent ==
    [kind |-> "none", btn |-> "none", first |-> [state |-> IDLE],
     async |-> FALSE]

\* ------------------------------------------------------------ buzzer

\* startBuzzer(), the countdown it leaves (main.cpp:398-407).
startBuzzerCounter(st, bc) ==
    IF st = RING
    THEN IF bc <= 0 THEN N_BUZZER_LONG ELSE bc
    ELSE N_BUZZER_SHORT

\* A slip: the enable bit is not set.
startBuzzerLeaves(bit) == bit

\* startBuzzer(), the Timer2 enable bit it leaves (main.cpp:409).
startBuzzerEnable(bit) == TRUE

\* A slip: the enable bit is left as it was.
stopBuzzerLeaves(bit) == bit

\* stopBuzzer(), the Timer2 enable bit it leaves (main.cpp:412-415).
stopBuzzer(bit) == FALSE

\* A slip: the countdown loses two per tick.
countDownTwice(c) == c - 2

\* counter-- of the fast handler (main.cpp:192, main.cpp:201).
countDown(c) == c - 1

\* The value of an assignment used as a condition: nonzero is true.
Truth(v) == v # 0

\* ------------------------------------------------------------ listeners

\* longSetAlarm(), longSetClock(): run inside the fast handler.
longSetAlarm(st) == IF st = IDLE THEN SET_ALARM1 ELSE st
longSetClock(st) == IF st = IDLE THEN SET_CLOCK1 ELSE st

\* Long listeners of a button in registration order (main.cpp:145-146).
LongListeners(st, b) ==
    IF b = "SET_ALARM" THEN longSetClock(longSetAlarm(st)) ELSE st

\* Short listeners of a button in registration order (main.cpp:137-143).
PressListeners(b) ==
    CASE b = "SET_ALARM" -> <<"pressSetAlarm", "pressSetClock">>
      [] b = "UP" -> <<"pressUp">>
      [] b = "DOWN" -> <<"pressDown">>
      [] b = "MODE" -> <<"pressMode">>
      [] b = "SNOOZE" -> <<"pressSnooze">>
      [] b = "STOP_ALARM" -> <<"pressStopAlarm">>

\* First statement of a listener.
Entry(l) ==
    CASE l = "pressButton" -> "L269"
      [] l = "pressSetAlarm" -> "L288"
      [] l = "pressSetClock" -> "L304"
      [] l = "pressUp" -> "L320"
      [] l = "pressDown" -> "L344"
      [] l = "pressMode" -> "L368"
      [] l = "pressSnooze" -> "L376"
      [] l = "pressStopAlarm" -> "L277"

\* A listener returns: the next listener of the press runs, or the loop
\* goes round (gui.draw() changes nothing here).
Return ==
    IF queue = <<>>
    THEN pc' = "L153" /\ queue' = queue
    ELSE pc' = Entry(Head(queue)) /\ queue' = Tail(queue)

\* The foreground is at a call that takes long, or has just come out of
\* one: the top of the loop (gui.draw(), main.cpp:167, lies before it),
\* ca.io.checkPress() (main.cpp:164) and the first statement of a listener
\* that checkPress calls.
Lengthy ==
    {"L153", "L164", "L269", "L277", "L288", "L304", "L320", "L344", "L368",
     "L376"}

\* Timer0 may overflow here: it overflows every 2048 cycles
\* (main.cpp:117-119), so once among the statements between two lengthy
\* calls and any number of times in a lengthy call.
OnePeriod == pc \in Lengthy \/ ~overflowed

\* A foreground step leaves the switch alone, and but for the test of
\* main.cpp:400 the loaded byte.
Fg == sw' = sw /\ loaded' = loaded

Goto(l) == pc' = l /\ queue' = queue

\* ------------------------------------------------------------ Init

Init ==
    /\ state = IDLE
    /\ mode = "H24"
    /\ snoozed = FALSE
    /\ clock = Midnight
    /\ alarm = Midnight
    /\ snooze = Midnight
    /\ backlight_counter = BACKLIGHT_OFF
    /\ buzzer_counter = BUZZER_OFF
    /\ buzzer_state = FALSE
    /\ light = FALSE
    /\ timsk2 = FALSE
    /\ sw \in BOOLEAN
    /\ pc = "L153"
    /\ queue = <<>>
    /\ loaded = 0
    /\ overflowed = FALSE
    /\ op = "init"
    /\ ev = NoEvent

\* ------------------------------------------------------------ interrupts

\* ISR(TIMER0_OVF_vect), main.cpp:183-221.  long is the button whose hold
\* crosses the long-press threshold on this tick, if any.
TIMER0_OVF(long) ==
        LET st1 == LongListeners(state, long)
        IN
        /\ state' = st1
        /\ IF backlight_counter # BACKLIGHT_OFF
           THEN IF backlight_counter > 0
                THEN /\ backlight_counter' = countDown(backlight_counter)
                     /\ light' = light
                ELSE /\ light' = FALSE
                     /\ backlight_counter' = BACKLIGHT_OFF
           ELSE UNCHANGED <<backlight_counter, light>>
        /\ IF buzzer_counter # BUZZER_OFF
           THEN IF buzzer_counter > 0
                THEN /\ buzzer_counter' = countDown(buzzer_counter)
                     /\ timsk2' = timsk2
                ELSE IF st1 = RING
                     THEN IF buzzer_state
                          THEN /\ buzzer_counter' =
                                      startBuzzerCounter(st1, buzzer_counter)
                               /\ timsk2' = startBuzzerEnable(timsk2)
                          ELSE /\ buzzer_counter' = N_BUZZER_LONG
                               /\ timsk2' = stopBuzzer(timsk2)
                     ELSE /\ buzzer_counter' = BUZZER_OFF
                          /\ timsk2' = stopBuzzer(timsk2)
           ELSE UNCHANGED <<buzzer_counter, timsk2>>
        \* main.cpp:213 compares buzzer_state with itself and drops the result
        /\ buzzer_state' = buzzer_state
        /\ UNCHANGED <<mode, snoozed, clock, alarm, snooze, sw, pc, queue,
                       loaded>>

\* The state the guard of main.cpp:236 leaves and whether it lets the body
\* run: the condition is the assignment ca.state = IDLE.
Timer1Guard == [state |-> IDLE, taken |-> Truth(IDLE)]

\* ISR(TIMER1_COMPA_vect), main.cpp:229-252.
TIMER1_COMPA ==
    LET c1 == tick(clock)
        g == Timer1Guard
        target == IF snoozed THEN snooze ELSE alarm
        ring == sw /\ g.taken /\ getValue(target) = getValue(c1)
        st1 == IF ~sw THEN state ELSE IF ring THEN RING ELSE g.state
    IN
    /\ clock' = c1
    /\ state' = st1
    /\ IF ring
       THEN /\ buzzer_counter' = startBuzzerCounter(st1, buzzer_counter)
            /\ timsk2' = startBuzzerEnable(timsk2)
       ELSE UNCHANGED <<buzzer_counter, timsk2>>
    /\ UNCHANGED <<mode, snoozed, alarm, snooze, backlight_counter,
                   buzzer_state, light, sw, pc, queue, loaded>>

\* The user moves the alarm on/off switch.
Switch ==
    /\ sw' = ~sw
    /\ UNCHANGED <<dev, pc, queue, loaded>>

\* ------------------------------------------------------------ main loop

\* The state the guards of main.cpp:155 and main.cpp:277 leave and whether
\* they let the body run: the condition is the assignment ca.state = RING.
RingGuard == [state |-> RING, taken |-> Truth(RING)]

\* The listeners a short press of b runs.  The generic listener is kept
\* apart from the per-button ones by the IO wrapper, which runs it before
\* (genericFirst) or after them.
Dispatch(b, genericFirst) ==
    IF genericFirst
    THEN <<"pressButton">> \o PressListeners(b)
    ELSE PressListeners(b) \o <<"pressButton">>

\* while (1) of main(), main.cpp:150-161: the switch is polled and, found
\* off, the alarm is silenced.
main ==
    /\ pc \in {"L153", "L155", "L156", "L157", "L159"}
    /\ IF pc = "L153"
       THEN /\ Goto(IF ~sw THEN "L155" ELSE "L164")
            /\ UNCHANGED <<state, snoozed, timsk2>>
       ELSE IF pc = "L155"
       THEN /\ state' = RingGuard.state
            /\ Goto(IF RingGuard.taken THEN "L156" ELSE "L164")
            /\ UNCHANGED <<snoozed, timsk2>>
       ELSE IF pc = "L156"
       THEN /\ state' = IDLE
            /\ Goto("L157")
            /\ UNCHANGED <<snoozed, timsk2>>
       ELSE IF pc = "L157"
       THEN /\ snoozed' = FALSE
            /\ Goto("L159")
            /\ UNCHANGED <<state, timsk2>>
       ELSE /\ timsk2' = stopBuzzer(timsk2)
            /\ Goto("L164")
            /\ UNCHANGED <<state, snoozed>>
    /\ UNCHANGED <<mode, clock, alarm, snooze, backlight_counter,
                   buzzer_counter, buzzer_state, light>>
    /\ Fg

\* ca.io.checkPress(), main.cpp:164: b is the button whose short press has
\* completed, if any; its listeners run one after the other.
checkPress(b, genericFirst) ==
    /\ pc = "L164"
    /\ IF b = "none"
       THEN Goto("L153")
       ELSE LET ls == Dispatch(b, genericFirst)
            IN pc' = Entry(Head(ls)) /\ queue' = Tail(ls)
    /\ UNCHANGED dev
    /\ Fg

\* ------------------------------------------------------------ listeners

\* The foreground is at the second byte store of a line.
SecondByte ==
    pc \in {"L270h", "L270l", "L402h", "L402l", "L406h", "L406l"}

\* pressButton(), main.cpp:267-273, with the statements of startBuzzer()
\* (main.cpp:397-410) it runs in the foreground.  The stores to the int
\* countdowns (main.cpp:270, 402, 406) are two byte stores each and the
\* load of buzzer_counter for the test of main.cpp:400 is two byte loads,
\* in either order.
pressButton ==
    /\ pc \in {"L269", "L270", "L270h", "L270l", "L398", "L400", "L400h",
               "L400l", "L402", "L402h", "L402l", "L406", "L406h", "L406l",
               "L409"}
    /\ IF pc = "L269"
       THEN /\ light' = TRUE
            /\ Goto("L270")
            /\ UNCHANGED <<backlight_counter, buzzer_counter, timsk2>>
       ELSE IF pc = "L270"
       THEN /\ \E first \in ByteOrder :
                  /\ backlight_counter' =
                         storeFirst(backlight_counter, N_BACKLIGHT, first)
                  /\ Goto(Pending(pc, first))
            /\ UNCHANGED <<light, buzzer_counter, timsk2>>
       ELSE IF pc \in {"L270h", "L270l"}
       THEN /\ backlight_counter' =
                   IF pc = "L270h"
                   THEN storeHigh(backlight_counter, N_BACKLIGHT)
                   ELSE storeLow(backlight_counter, N_BACKLIGHT)
            /\ Goto("L398")
            /\ UNCHANGED <<light, buzzer_counter, timsk2>>
       ELSE IF pc = "L398"
       THEN /\ Goto(IF state = RING THEN "L400" ELSE "L406")
            /\ UNCHANGED <<light, backlight_counter, buzzer_counter, timsk2>>
       ELSE IF pc = "L400"
       THEN /\ \E first \in ByteOrder :
                  /\ loaded' = loadFirst(buzzer_counter, first)
                  /\ Goto(Pending(pc, first))
            /\ UNCHANGED <<light, backlight_counter, buzzer_counter, timsk2>>
       ELSE IF pc \in {"L400h", "L400l"}
       THEN /\ Goto(IF loadSecond(buzzer_counter, loaded, pc) <= 0
                    THEN "L402" ELSE "L409")
            /\ UNCHANGED <<light, backlight_counter, buzzer_counter, timsk2>>
       ELSE IF pc \in {"L402", "L406"}
       THEN /\ \E first \in ByteOrder :
                  /\ buzzer_counter' =
                         storeFirst(buzzer_counter,
                                    IF pc = "L402" THEN N_BUZZER_LONG
                                    ELSE N_BUZZER_SHORT, first)
                  /\ Goto(Pending(pc, first))
            /\ UNCHANGED <<light, backlight_counter, timsk2>>
       ELSE IF SecondByte
       THEN /\ buzzer_counter' =
                   LET v == IF pc \in {"L402h", "L402l"} THEN N_BUZZER_LONG
                            ELSE N_BUZZER_SHORT
                   IN IF pc \in {"L402h", "L406h"}
                      THEN storeHigh(buzzer_counter, v)
                      ELSE storeLow(buzzer_counter, v)
            /\ Goto("L409")
            /\ UNCHANGED <<light, backlight_counter, timsk2>>
       ELSE /\ timsk2' = startBuzzerEnable(timsk2)
            /\ Return
            /\ UNCHANGED <<light, backlight_counter, buzzer_counter>>
    /\ pc # "L400" =>
          loaded' = IF pc \in {"L400h", "L400l"} THEN 0 ELSE loaded
    /\ UNCHANGED <<state, mode, snoozed, clock, alarm, snooze, buzzer_state>>
    /\ sw' = sw

\* pressStopAlarm(), main.cpp:275-284.
pressStopAlarm ==
    /\ pc \in {"L277", "L279", "L280", "L282"}
    /\ IF pc = "L277"
       THEN /\ state' = RingGuard.state
            /\ IF RingGuard.taken THEN Goto("L279") ELSE Return
            /\ UNCHANGED <<snoozed, timsk2>>
       ELSE IF pc = "L279"
       THEN /\ state' = IDLE
            /\ Goto("L280")
            /\ UNCHANGED <<snoozed, timsk2>>
       ELSE IF pc = "L280"
       THEN /\ snoozed' = FALSE
            /\ Goto("L282")
            /\ UNCHANGED <<state, timsk2>>
       ELSE /\ timsk2' = stopBuzzer(timsk2)
            /\ Return
            /\ UNCHANGED <<state, snoozed>>
    /\ UNCHANGED <<mode, clock, alarm, snooze, backlight_counter,
                   buzzer_counter, buzzer_state, light>>
    /\ Fg

\* pressSetAlarm(), main.cpp:286-293.
pressSetAlarm ==
    /\ pc \in {"L288", "L289", "L291"}
    /\ IF pc = "L288"
       THEN /\ Goto(IF state = SET_ALARM1 THEN "L289" ELSE "L291")
            /\ state' = state
       ELSE /\ state' = IF pc = "L289" THEN SET_ALARM2 ELSE IDLE
            /\ Return
    /\ UNCHANGED <<mode, snoozed, clock, alarm, snooze, backlight_counter,
                   buzzer_counter, buzzer_state, light, timsk2>>
    /\ Fg

\* pressSetClock(), main.cpp:302-310.
pressSetClock ==
    /\ pc \in {"L304", "L305", "L307"}
    /\ IF pc = "L304"
       THEN /\ Goto(IF state = SET_CLOCK1 THEN "L305" ELSE "L307")
            /\ state' = state
       ELSE /\ state' = IF pc = "L305" THEN SET_CLOCK2 ELSE IDLE
            /\ Return
    /\ UNCHANGED <<mode, snoozed, clock, alarm, snooze, backlight_counter,
                   buzzer_counter, buzzer_state, light, timsk2>>
    /\ Fg

\* A slip: the switch always takes its default case.
UpDownDefault(st, at) == IF at = "L320" THEN "L339" ELSE "L363"

\* The case of switch (ca.state) in pressUp() / pressDown() that runs,
\* given the line of the switch.
UpDownCase(st, at) ==
    IF at = "L320"
    THEN CASE st = SET_ALARM1 -> "L322"
           [] st = SET_ALARM2 -> "L326"
           [] st = SET_CLOCK1 -> "L330"
           [] st = SET_CLOCK2 -> "L334"
           [] OTHER -> "L339"
    ELSE CASE st = SET_ALARM1 -> "L346"
           [] st = SET_ALARM2 -> "L350"
           [] st = SET_CLOCK1 -> "L354"
           [] st = SET_CLOCK2 -> "L358"
           [] OTHER -> "L363"

\* pressUp(), main.cpp:319-341.
pressUp ==
    /\ pc \in {"L320", "L322", "L326", "L330", "L334", "L339"}
    /\ IF pc = "L320"
       THEN /\ Goto(UpDownCase(state, pc))
            /\ UNCHANGED <<alarm, clock>>
       ELSE /\ alarm' = IF pc = "L322" THEN setHour(alarm, 1)
                        ELSE IF pc = "L326" THEN setMin(alarm, 1)
                        ELSE alarm
            /\ clock' = IF pc = "L330" THEN setHour(clock, 1)
                        ELSE IF pc = "L334" THEN setMin(clock, 1)
                        ELSE clock
            /\ Return
    /\ UNCHANGED <<state, mode, snoozed, snooze, backlight_counter,
                   buzzer_counter, buzzer_state, light, timsk2>>
    /\ Fg

\* pressDown(), main.cpp:343-365.
pressDown ==
    /\ pc \in {"L344", "L346", "L350", "L354", "L358", "L363"}
    /\ IF pc = "L344"
       THEN /\ Goto(UpDownCase(state, pc))
            /\ UNCHANGED <<alarm, clock>>
       ELSE /\ alarm' = IF pc = "L346" THEN setHour(alarm, -1)
                        ELSE IF pc = "L350" THEN setMin(alarm, -1)
                        ELSE alarm
            /\ clock' = IF pc = "L354" THEN setHour(clock, -1)
                        ELSE IF pc = "L358" THEN setMin(clock, -1)
                        ELSE clock
            /\ Return
    /\ UNCHANGED <<state, mode, snoozed, snooze, backlight_counter,
                   buzzer_counter, buzzer_state, light, timsk2>>
    /\ Fg

\* A slip: the test of pressMode() always takes the first branch.
modeCaseFirst(m) == "L369"

\* The branch of pressMode() that runs (main.cpp:368).
modeCase(m) == IF m = "H12" THEN "L369" ELSE "L371"

\* pressMode(), main.cpp:367-373.
pressMode ==
    /\ pc \in {"L368", "L369", "L371"}
    /\ IF pc = "L368"
       THEN /\ Goto(modeCase(mode))
            /\ mode' = mode
       ELSE /\ mode' = IF pc = "L369" THEN "H24" ELSE "H12"
            /\ Return
    /\ UNCHANGED <<state, snoozed, clock, alarm, snooze, backlight_counter,
                   buzzer_counter, buzzer_state, light, timsk2>>
    /\ Fg

\* The five more minutes of pressSnooze() (main.cpp:382, main.cpp:385).
snoozeMore(t) == setMin(t, 5)

\* pressSnooze(), main.cpp:375-391.
pressSnooze ==
    /\ pc \in {"L376", "L378", "L380", "L381", "L382", "L385", "L389"}
    /\ IF pc = "L376"
       THEN /\ IF state = RING THEN Goto("L378") ELSE Return
            /\ UNCHANGED <<state, snoozed, snooze>>
       ELSE IF pc = "L378"
       THEN /\ Goto(IF ~snoozed THEN "L380" ELSE "L385")
            /\ UNCHANGED <<state, snoozed, snooze>>
       ELSE IF pc = "L380"
       THEN /\ snoozed' = TRUE
            /\ Goto("L381")
            /\ UNCHANGED <<state, snooze>>
       ELSE IF pc = "L381"
       THEN /\ snooze' = sync(snooze, alarm)
            /\ Goto("L382")
            /\ UNCHANGED <<state, snoozed>>
       ELSE IF pc \in {"L382", "L385"}
       THEN /\ snooze' = snoozeMore(snooze)
            /\ Goto("L389")
            /\ UNCHANGED <<state, snoozed>>
       ELSE /\ state' = IDLE
            /\ Return
            /\ UNCHANGED <<snoozed, snooze>>
    /\ UNCHANGED <<mode, clock, alarm, backlight_counter, buzzer_counter,
                   buzzer_state, light, timsk2>>
    /\ Fg

\* ------------------------------------------------------------ behaviours

\* A statement of a listener.
Listener ==
    \/ pressButton
    \/ pressStopAlarm
    \/ pressSetAlarm
    \/ pressSetClock
    \/ pressUp
    \/ pressDown
    \/ pressMode
    \/ pressSnooze

\* The presses checkPress may find: a button or none, in either order of
\* the generic and the per-button listeners.
Presses ==
    {<<"none", TRUE>>} \cup (Buttons \X BOOLEAN)

\* The holds countCheckLong may find crossing the long-press threshold on a
\* fast tick: only SET_ALARM has long listeners.
Holds == {"none", "SET_ALARM"}

\* The device from power-up: a handler may preempt the foreground between
\* any two of its statements, any number of times.  No history is kept and
\* no time.
Next ==
    \/ main /\ UNCHANGED <<hist, overflowed>>
    \/ \E p \in Presses :
          checkPress(p[1], p[2]) /\ UNCHANGED <<hist, overflowed>>
    \/ Listener /\ UNCHANGED <<hist, overflowed>>
    \/ \E long \in Holds : TIMER0_OVF(long) /\ UNCHANGED <<hist, overflowed>>
    \/ TIMER1_COMPA /\ UNCHANGED <<hist, overflowed>>
    \/ Switch /\ UNCHANGED <<hist, overflowed>>

Spec == Init /\ [][Next]_vars

\* A foreground step under the Timer0 period: an overflow among the
\* statements run since the last lengthy call is remembered until the next
\* lengthy call.
Elapse == overflowed' = (overflowed /\ pc' \notin Lengthy)

\* Timer0 overflows, a period after its last overflow, and its handler runs.
Overflow(long) ==
    /\ OnePeriod
    /\ TIMER0_OVF(long)
    /\ overflowed' = (pc \notin Lengthy)

\* The device from power-up with the overflows of Timer0 a period apart.
NextPeriod ==
    \/ main /\ Elapse /\ UNCHANGED hist
    \/ \E p \in Presses : checkPress(p[1], p[2]) /\ Elapse /\ UNCHANGED hist
    \/ Listener /\ Elapse /\ UNCHANGED hist
    \/ \E long \in Holds : Overflow(long) /\ UNCHANGED hist
    \/ TIMER1_COMPA /\ UNCHANGED <<hist, overflowed>>
    \/ Switch /\ UNCHANGED <<hist, overflowed>>

PeriodSpec == Init /\ [][NextPeriod]_vars

\* The history: op names the step taken last, ev the switch-off or press
\* the foreground is handling or has just handled, with DeviceState as the
\* event began (first) and whether a handler has changed DeviceState since
\* (async).
Named(name) == op' = name /\ overflowed' = overflowed

\* The same under the Timer0 period.
NamedFg(name) == op' = name /\ Elapse

Begun(k, b) == [kind |-> k, btn |-> b, first |-> First, async |-> FALSE]

Seen ==
    IF ev.kind = "none"
    THEN ev
    ELSE [ev EXCEPT !.async = @ \/ state' # state]

\* Neither the step taken nor the time is remembered.
Kept == op' = op /\ overflowed' = overflowed

\* The device from power-up with ev kept (op is not), preempted as in Spec.
NextTraced ==
    \/ /\ main
       /\ Kept
       /\ ev' = IF pc = "L153"
                THEN IF ~sw
                     THEN Begun("switchoff", "none")
                     ELSE NoEvent
                ELSE ev
    \/ \E p \in Presses :
          /\ checkPress(p[1], p[2])
          /\ Kept
          /\ ev' = IF p[1] = "none"
                   THEN NoEvent
                   ELSE Begun("press", p[1])
    \/ Listener /\ Kept /\ ev' = ev
    \/ \E long \in Holds : TIMER0_OVF(long) /\ Kept /\ ev' = Seen
    \/ TIMER1_COMPA /\ Kept /\ ev' = Seen
    \/ Switch /\ Kept /\ ev' = ev

TracedSpec == Init /\ [][NextTraced]_vars

\* The program on every well-typed device state: what the statements and
\* the handlers do from a state, whether or not the device as written gets
\* there from power-up, preempted as in Spec.  Init is one of these states,
\* so every behaviour of Spec is one of HandlerSpec: what holds under
\* HandlerSpec holds from power-up, and nothing that fails under it is
\* taken to fail on the device.  The times start at midnight and snoozed
\* false (the ticks and the presses give the other values).  buzzer_state
\* is assigned nowhere and keeps its initial value.
InitAny ==
    /\ state \in DeviceState
    /\ mode = "H24"
    /\ snoozed = FALSE
    /\ clock = Midnight
    /\ alarm = Midnight
    /\ snooze = Midnight
    /\ backlight_counter = BACKLIGHT_OFF
    /\ buzzer_counter \in {BUZZER_OFF} \cup (0 .. N_BUZZER_LONG)
    /\ buzzer_state = FALSE
    /\ light = FALSE
    /\ timsk2 \in BOOLEAN
    /\ sw \in BOOLEAN
    /\ pc = "L153"
    /\ queue = <<>>
    /\ loaded = 0
    /\ overflowed = FALSE
    /\ op = "init"
    /\ ev = NoEvent

HandlerSpec == InitAny /\ [][Next]_vars

\* The device from power-up with Stop Alarm the only button in use, never
\* held long, preempted as in Spec, the loop never blocking and the timers
\* firing for ever.  ev is kept, op names the step taken last.
StopPresses == {p \in Presses : p[1] \in {"none", "STOP_ALARM"}}

NextSilence ==
    \/ /\ main
       /\ Named(pc)
       /\ ev' = IF pc = "L153"
                THEN IF ~sw
                     THEN Begun("switchoff", "none")
                     ELSE NoEvent
                ELSE ev
    \/ \E p \in StopPresses :
          /\ checkPress(p[1], p[2])
          /\ Named(pc)
          /\ ev' = IF p[1] = "none"
                   THEN NoEvent
                   ELSE Begun("press", p[1])
    \/ Listener /\ Named(pc) /\ ev' = ev
    \/ TIMER0_OVF("none") /\ Named("TIMER0") /\ ev' = Seen
    \/ TIMER1_COMPA /\ Named("TIMER1") /\ ev' = Seen
    \/ Switch /\ Named("switch") /\ ev' = ev

SilenceSpec ==
    /\ Init
    /\ [][NextSilence]_vars
    /\ WF_vars(NextSilence /\ op' = pc)
    /\ WF_vars(NextSilence /\ op' = "TIMER0")
    /\ WF_vars(NextSilence /\ op' = "TIMER1")

\* The device from power-up with Mode the only button in use, never held
\* long, preempted as in PeriodSpec, the loop never blocking and the timers
\* firing for ever (Timer0 whenever its period lets it, again and again).
\* ev is kept, op names the step taken last.
BeepPresses == {p \in Presses : p[1] \in {"none", "MODE"}}

NextBeep ==
    \/ /\ main
       /\ NamedFg(pc)
       /\ ev' = IF pc = "L153"
                THEN IF ~sw
                     THEN Begun("switchoff", "none")
                     ELSE NoEvent
                ELSE ev
    \/ \E p \in BeepPresses :
          /\ checkPress(p[1], p[2])
          /\ NamedFg(pc)
          /\ ev' = IF p[1] = "none"
                   THEN NoEvent
                   ELSE Begun("press", p[1])
    \/ Listener /\ NamedFg(pc) /\ ev' = ev
    \/ Overflow("none") /\ op' = "TIMER0" /\ ev' = Seen
    \/ TIMER1_COMPA /\ Named("TIMER1") /\ ev' = Seen
    \/ Switch /\ Named("switch") /\ ev' = ev

BeepSpec ==
    /\ Init
    /\ [][NextBeep]_vars
    /\ WF_vars(NextBeep /\ op' = pc)
    /\ SF_vars(NextBeep /\ op' = "TIMER0")
    /\ WF_vars(NextBeep /\ op' = "TIMER1")

\* ------------------------------------------------------------ claims

\* A short press has been handled: its last listener has returned.
PressDone(b) == pc = "L153" /\ ev.kind = "press" /\ ev.btn = b

\* The switch-off block of the loop has been run through.
SwitchOffDone == pc = "L164" /\ ev.kind = "switchoff"

\* The foreground statement at line l runs (a handler leaves pc alone).
Runs(l) == pc = l /\ pc' # pc

\* A foreground statement runs.
Foreground == pc' # pc

\* The foreground is inside pressButton() (startBuzzer() included).
InPressButton ==
    pc \in {"L269", "L270", "L270h", "L270l", "L398", "L400", "L400h",
            "L400l", "L402", "L402h", "L402l", "L406", "L406h", "L406l",
            "L409"}

\* The rows of the transition table for a short press: any press while
\* ringing, and Set Alarm / Set Clock in a setting state.
InTable(st, b) ==
    \/ st = RING
    \/ b = "SET_ALARM" /\ st \in {SET_ALARM1, SET_ALARM2, SET_CLOCK1, SET_CLOCK2}

\* The 1-second handler finds the compared time equal to the clock.
TickMatches(target) == getValue(target) = getValue(clock')

\* C1: with the switch on, snoozed false and the device IDLE, a 1-second
\* tick after which Clock equals Alarm leaves the device in RING with
\* buzzer_counter = N_BUZZER_LONG and the Timer2 interrupt enabled, whatever
\* the buzzer state before.
C1_AlarmTrigger ==
    [][(TIMER1_COMPA /\ sw /\ ~snoozed /\ state = IDLE /\ TickMatches(alarm))
         => (state' = RING /\ buzzer_counter' = N_BUZZER_LONG /\ timsk2')]_vars

\* The buzzer is off: no pulse interrupt and no countdown pending.
BuzzerOff == ~timsk2 /\ buzzer_counter = BUZZER_OFF

\* The listeners of a short press are running.
Pressing == ev.kind = "press" /\ pc # "L153"

\* C5: handling a button event whose (state, event) pair is no row of the
\* transition table leaves DeviceState unchanged: a short press outside the
\* rows, all its listeners run and no handler having changed DeviceState
\* meanwhile, and a long press of Set Alarm / Set Clock outside IDLE.
C5_ClosedTable ==
    [][/\ \A b \in Buttons :
            (PressDone(b)' /\ ~ev'.async /\ ~InTable(ev'.first.state, b))
                => state' = ev'.first.state
       /\ (TIMER0_OVF("SET_ALARM") /\ state # IDLE) => state' = state]_vars

\* C6: the 1-second handler changes DeviceState only from IDLE to RING, on
\* a match with the switch on; in every other case it leaves it unchanged.
C6_TickFrame ==
    [][TIMER1_COMPA
         => \/ state' = state
            \/ /\ state = IDLE /\ state' = RING /\ sw
               /\ TickMatches(IF snoozed THEN snooze ELSE alarm)]_vars

\* C7: a statement of the switch-off block, run in a loop round that found
\* the switch off with the device not ringing, leaves DeviceState, snoozed
\* and the Timer2 enable unchanged, and DeviceState becomes RING only by
\* the 1-second handler.
C7_SwitchOffFrame ==
    [][/\ (ev.kind = "switchoff" /\ pc \in {"L155", "L156", "L157", "L159"}
           /\ Foreground /\ ev.first.state # RING)
            => UNCHANGED <<state, snoozed, timsk2>>
       /\ (state # RING /\ state' = RING) => TIMER1_COMPA]_vars

\* C8: a long press of Set Alarm in IDLE leaves SET_ALARM1; a short press
\* of Set Alarm in SET_ALARM1, all its listeners run, leaves SET_ALARM2; one
\* more in SET_ALARM2 leaves IDLE.
C8_AlarmSetting ==
    [][/\ (TIMER0_OVF("SET_ALARM") /\ state = IDLE) => state' = SET_ALARM1
       /\ (PressDone("SET_ALARM")' /\ ev'.first.state = SET_ALARM1)
            => state' = SET_ALARM2
       /\ (PressDone("SET_ALARM")' /\ ev'.first.state = SET_ALARM2)
            => state' = IDLE]_vars

\* C9: SET_CLOCK1 is entered by a long press of Set Clock (the Set Alarm
\* button) in IDLE; a short press in SET_CLOCK1 leaves SET_CLOCK2 and one in
\* SET_CLOCK2 leaves IDLE.  The device has only this one long press of the
\* button, so the long press the claim asks for is this one.
C9_ClockSetting ==
    [][/\ (TIMER0_OVF("SET_ALARM") /\ state = IDLE) => state' = SET_CLOCK1
       /\ (PressDone("SET_ALARM")' /\ ev'.first.state = SET_CLOCK1)
            => state' = SET_CLOCK2
       /\ (PressDone("SET_ALARM")' /\ ev'.first.state = SET_CLOCK2)
            => state' = IDLE]_vars

\* C10: while the device rings, every expiry of buzzer_counter in the fast
\* handler flips the Timer2 interrupt enable.
C10_Intermittent ==
    [][(TIMER0_OVF("none") /\ state = RING /\ buzzer_counter = 0)
         => timsk2' = ~timsk2]_vars

\* The value line l of startBuzzer() stores into buzzer_counter.
Stored(l) ==
    IF l \in {"L402", "L402h", "L402l"} THEN N_BUZZER_LONG ELSE N_BUZZER_SHORT

\* The int c' is c with the low (the high) byte of v stored.
LowStored(c, v) ==
    lowByte(c') = lowByte(v) /\ highByte(c') = highByte(c)
HighStored(c, v) ==
    highByte(c') = highByte(v) /\ lowByte(c') = lowByte(c)

\* C11: startBuzzer() always enables the Timer2 interrupt (main.cpp:409);
\* finding RING at its test it sets buzzer_counter to N_BUZZER_LONG if it
\* finds the counter <= 0 and leaves it alone otherwise; finding another
\* state it sets N_BUZZER_SHORT.  Finding the counter is loading its two
\* bytes, in either order, and gives the counter as it is when the byte
\* loaded first is still in place.  Setting the counter is storing the two
\* bytes of the value, in either order, and leaves the value when the
\* byte stored first is still in place.  stopBuzzer() (called at
\* main.cpp:159 and main.cpp:282) disables the interrupt and leaves
\* buzzer_counter alone.
C11_StartBuzzer ==
    [][/\ Runs("L398") =>
            /\ (pc' = "L400") <=> (state = RING)
            /\ (pc' = "L406") <=> (state # RING)
            /\ UNCHANGED <<buzzer_counter, timsk2>>
       /\ Runs("L400") =>
            /\ \/ loaded' = lowByte(buzzer_counter) /\ pc' = "L400h"
               \/ loaded' = highByte(buzzer_counter) /\ pc' = "L400l"
            /\ UNCHANGED <<buzzer_counter, timsk2>>
       /\ Runs("L400h") =>
            /\ (pc' = "L402") <=> (Word(highByte(buzzer_counter), loaded) <= 0)
            /\ (pc' = "L409") <=> (Word(highByte(buzzer_counter), loaded) > 0)
            /\ loaded = lowByte(buzzer_counter)
                  => ((pc' = "L402") <=> (buzzer_counter <= 0))
            /\ UNCHANGED <<buzzer_counter, timsk2>>
       /\ Runs("L400l") =>
            /\ (pc' = "L402") <=> (Word(loaded, lowByte(buzzer_counter)) <= 0)
            /\ (pc' = "L409") <=> (Word(loaded, lowByte(buzzer_counter)) > 0)
            /\ loaded = highByte(buzzer_counter)
                  => ((pc' = "L402") <=> (buzzer_counter <= 0))
            /\ UNCHANGED <<buzzer_counter, timsk2>>
       /\ \A l \in {"L402", "L406"} :
            Runs(l) =>
               /\ \/ LowStored(buzzer_counter, Stored(l)) /\ pc' = l \o "h"
                  \/ HighStored(buzzer_counter, Stored(l)) /\ pc' = l \o "l"
               /\ timsk2' = timsk2
       /\ \A l \in {"L402h", "L406h"} :
            Runs(l) =>
               /\ HighStored(buzzer_counter, Stored(l))
               /\ lowByte(buzzer_counter) = lowByte(Stored(l))
                     => buzzer_counter' = Stored(l)
               /\ pc' = "L409" /\ timsk2' = timsk2
       /\ \A l \in {"L402l", "L406l"} :
            Runs(l) =>
               /\ LowStored(buzzer_counter, Stored(l))
               /\ highByte(buzzer_counter) = highByte(Stored(l))
                     => buzzer_counter' = Stored(l)
               /\ pc' = "L409" /\ timsk2' = timsk2
       /\ Runs("L409") => (timsk2' /\ buzzer_counter' = buzzer_counter)
       /\ (Runs("L159") \/ Runs("L282"))
            => (timsk2' = FALSE /\ buzzer_counter' = buzzer_counter)]_vars

\* startBuzzer() has found the device ringing with a phase running, has left
\* the counter alone and is about to enable a disabled interrupt.
C11_Witness ==
    /\ pc = "L409" /\ state = RING /\ buzzer_counter = 1 /\ ~timsk2

\* C12: whenever backlight_counter is not BACKLIGHT_OFF outside the generic
\* press listener, the illumination is on: a press handled while the
\* countdown of an earlier one still runs leaves the light on, whatever
\* statements of pressButton() the fast handler comes between.
C12_BacklightRefresh ==
    (~InPressButton /\ backlight_counter # BACKLIGHT_OFF) => light

\* A first Snooze press is half done: snoozed is set (main.cpp:380) and
\* Snooze is not yet Alarm + 5 minutes.  (main.cpp:389, where DeviceState is
\* still RING, is left out: a later press comes through it as well.)
SnoozeHalfDone == pc \in {"L381", "L382"}

\* A guard of main.cpp:155 or main.cpp:277 has written DeviceState and the
\* statement after it has not yet run.
GuardHalfDone == pc \in {"L156", "L279"}

\* C13: no 1-second tick runs while a first Snooze press is half done, and
\* no interrupt handler runs while DeviceState holds the value written by
\* the guard of the switch-off block or of pressStopAlarm().
C13_AtomicUpdates ==
    [][/\ TIMER1_COMPA => ~SnoozeHalfDone
       /\ (TIMER1_COMPA \/ \E long \in Holds : TIMER0_OVF(long))
            => ~GuardHalfDone]_vars

\* Stop Alarm has just silenced the device, the switch on.
StoppedByPress ==
    PressDone("STOP_ALARM") /\ ~ev.async /\ state = IDLE /\ ~snoozed /\ sw

\* C14: after the device is silenced with Stop Alarm, the 1-second
\* ticks going on, a tick leaves the device in RING again (the clock has
\* come round to Alarm) unless the switch is turned off or a button is
\* pressed first.  Nothing edits Alarm here.
C14_DailyRearm ==
    StoppedByPress ~> ((op = "TIMER1" /\ state = RING) \/ ~sw \/ Pressing)

\* The clock has come round to Alarm on a tick after the silencing.
C14_Witness ==
    /\ op = "TIMER1" /\ getValue(clock) = getValue(alarm) /\ sw
    /\ ev.kind = "press" /\ ev.btn = "STOP_ALARM" /\ pc = "L153"
    /\ ~ev.async /\ ~snoozed /\ state = IDLE

\* A generic short press has been handled on a device that was not ringing.
Beeped == pc = "L153" /\ ev.kind = "press" /\ ev.first.state # RING

\* C15: after a generic short press handled outside RING, the fast ticks
\* going on, the Timer2 interrupt gets disabled with buzzer_counter
\* BUZZER_OFF unless a button is pressed or DeviceState becomes RING first;
\* and a buzzer that is off stays so but for a press listener or a match
\* in the 1-second handler.
C15_BeepTerminates ==
    /\ Beeped ~> (BuzzerOff \/ Pressing \/ state = RING)
    /\ [][(BuzzerOff /\ ~BuzzerOff')
            => (InPressButton \/ (TIMER1_COMPA /\ state' = RING))]_vars

\* The beep of a press has been counted down and ended by the fast handler.
C15_Witness ==
    /\ Beeped /\ op = "TIMER0" /\ BuzzerOff
    /\ state = IDLE /\ sw

\* C19: whenever the Timer2 interrupt is enabled a countdown is pending
\* (buzzer_counter is not BUZZER_OFF), whatever statements of startBuzzer()
\* the fast handler comes between.
C19_BuzzerCounted == timsk2 => buzzer_counter # BUZZER_OFF

\* The fast handler has come between the store of N_BUZZER_SHORT
\* (main.cpp:406) and the enabling of the interrupt (main.cpp:409).
C19_Witness ==
    /\ pc = "L409" /\ overflowed /\ ~timsk2 /\ state = IDLE
    /\ buzzer_counter = N_BUZZER_SHORT - 1

\* The fast handler runs.
FastTick == \E long \in Holds : TIMER0_OVF(long)

\* C16: a fast tick takes one off backlight_counter while it is > 0 and
\* leaves the illumination alone; the tick that finds it 0 switches the
\* illumination off and sets BACKLIGHT_OFF; a tick that finds BACKLIGHT_OFF
\* touches neither; and between presses nothing but the fast handler
\* touches them (a press does at main.cpp:269 and main.cpp:270).
C16_BacklightExpiry ==
    [][/\ FastTick =>
            IF backlight_counter > 0
            THEN /\ backlight_counter' = backlight_counter - 1
                 /\ light' = light
            ELSE IF backlight_counter = 0
            THEN light' = FALSE /\ backlight_counter' = BACKLIGHT_OFF
            ELSE backlight_counter = BACKLIGHT_OFF
                    => (backlight_counter' = backlight_counter
                        /\ light' = light)
       /\ (backlight_counter' # backlight_counter \/ light' # light)
            => (FastTick \/ pc \in {"L269", "L270", "L270h", "L270l"})]_vars

\* A Mode press has been handled, its listeners done, and the illumination
\* it switched on has expired.
C16_Witness ==
    /\ pc = "L153" /\ queue = <<>> /\ mode = "H12"
    /\ light = FALSE /\ backlight_counter = BACKLIGHT_OFF

\* What an Up (d = 1) or Down (d = -1) press makes of Alarm and of Clock
\* in DeviceState st.
EditedAlarm(t, st, d) ==
    IF st = SET_ALARM1 THEN setHour(t, d)
    ELSE IF st = SET_ALARM2 THEN setMin(t, d)
    ELSE t

EditedClock(t, st, d) ==
    IF st = SET_CLOCK1 THEN setHour(t, d)
    ELSE IF st = SET_CLOCK2 THEN setMin(t, d)
    ELSE t

\* The foreground is at a case of the switch of pressUp() / pressDown().
AtUpCase == pc \in {"L322", "L326", "L330", "L334", "L339"}
AtDownCase == pc \in {"L346", "L350", "L354", "L358", "L363"}

\* The DeviceStates whose case of the switch stands at line l.
CaseOf(l) ==
    CASE l \in {"L322", "L346"} -> {SET_ALARM1}
      [] l \in {"L326", "L350"} -> {SET_ALARM2}
      [] l \in {"L330", "L354"} -> {SET_CLOCK1}
      [] l \in {"L334", "L358"} -> {SET_CLOCK2}
      [] OTHER -> {IDLE, RING}

\* C17: the switch of an Up (Down) press takes the case of the DeviceState
\* it reads, and the case moves Alarm.hour by +1 (-1) for SET_ALARM1,
\* Alarm.minute for SET_ALARM2, Clock.hour for SET_CLOCK1, Clock.minute for
\* SET_CLOCK2 and touches neither time for IDLE or RING; no statement of the
\* press, generic listener included, changes DeviceState; and nothing but
\* the SET_ALARM1 and SET_ALARM2 cases of an Up or Down press changes Alarm.
C17_UpDownEdits ==
    [][/\ Runs("L320") =>
            /\ pc' \in {"L322", "L326", "L330", "L334", "L339"}
            /\ state \in CaseOf(pc')
            /\ UNCHANGED <<alarm, clock>>
       /\ Runs("L344") =>
            /\ pc' \in {"L346", "L350", "L354", "L358", "L363"}
            /\ state \in CaseOf(pc')
            /\ UNCHANGED <<alarm, clock>>
       /\ (AtUpCase /\ Foreground) =>
            \A st \in CaseOf(pc) :
               /\ alarm' = EditedAlarm(alarm, st, 1)
               /\ clock' = EditedClock(clock, st, 1)
       /\ (AtDownCase /\ Foreground) =>
            \A st \in CaseOf(pc) :
               /\ alarm' = EditedAlarm(alarm, st, -1)
               /\ clock' = EditedClock(clock, st, -1)
       /\ ((AtUpCase \/ AtDownCase \/ pc \in {"L320", "L344"} \/ InPressButton)
           /\ Foreground) => state' = state
       /\ alarm' # alarm => pc \in {"L322", "L326", "L346", "L350"}]_vars

\* A Down press taken in SET_ALARM1 is at the case that moves the hour of
\* Alarm, on a dial where one hour down is neither one hour up nor none.
C17_Witness ==
    /\ pc = "L346" /\ state = SET_ALARM1
    /\ setHour(alarm, -1) # setHour(alarm, 1)
    /\ setHour(alarm, -1) # alarm

\* The foreground is inside pressMode().
InPressMode == pc \in {"L368", "L369", "L371"}

\* C18: in every DeviceState a Mode press flips the display mode between
\* H12 and H24 (the branch of pressMode() that runs is the one of the mode
\* it reads, and no handler touches the mode in between); no statement of
\* the press, generic listener included, changes DeviceState, snoozed, Alarm
\* or Snooze; nothing else changes the mode, so two presses in a row
\* restore it.
C18_ModeToggle ==
    /\ [](pc = "L369" => mode = "H12")
    /\ [](pc = "L371" => mode = "H24")
    /\ [][/\ Runs("L368") =>
               (pc' = (IF mode = "H12" THEN "L369" ELSE "L371")
                /\ mode' = mode)
          /\ Runs("L369") => mode' = "H24"
          /\ Runs("L371") => mode' = "H12"
          /\ ((InPressMode \/ InPressButton) /\ Foreground)
               => UNCHANGED <<state, snoozed, alarm, snooze>>
          /\ mode' # mode => (pc \in {"L369", "L371"} /\ Foreground)]_vars

\* A second Mode press, in a setting state, is about to restore the 24 hour
\* mode.
C18_Witness ==
    /\ pc = "L369" /\ mode = "H12" /\ state = SET_CLOCK2

\* The larger of the two buzzer durations.
MaxBuzzer ==
    IF N_BUZZER_SHORT > N_BUZZER_LONG THEN N_BUZZER_SHORT ELSE N_BUZZER_LONG

\* C20: backlight_counter is BACKLIGHT_OFF or in 0 .. N_BACKLIGHT and
\* buzzer_counter is BUZZER_OFF or in 0 .. max(N_BUZZER_SHORT,
\* N_BUZZER_LONG) in every reachable state, and a counter goes below 0 only
\* by being set to its off value from 0 by the fast handler.
C20_CountdownRange ==
    /\ [](backlight_counter \in {BACKLIGHT_OFF} \cup (0 .. N_BACKLIGHT))
    /\ [](buzzer_counter \in {BUZZER_OFF} \cup (0 .. MaxBuzzer))
    /\ [][/\ (backlight_counter >= 0 /\ backlight_counter' < 0)
               => /\ backlight_counter = 0
                  /\ backlight_counter' = BACKLIGHT_OFF
                  /\ FastTick
          /\ (buzzer_counter >= 0 /\ buzzer_counter' < 0)
               => /\ buzzer_counter = 0
                  /\ buzzer_counter' = BUZZER_OFF
                  /\ FastTick]_vars

====
